---- MODULE Spec2Model ----
(***************************************************************************)
(* A model of the birthday reminder web application (src/app.py): the      *)
(* record store and its request handlers, the date calculator, the board's *)
(* ranking, the geocoding helper and the fun-facts helper.                  *)
(***************************************************************************)
EXTENDS Integers, Sequences, FiniteSets, TLC

VARIABLES
    users,              \* rows of table User
    birthdays,          \* rows of table Birthday
    current_user,       \* the browser session: <<>> (anonymous) or <<user id>>
    request,            \* the request handled last
    response,           \* the response it got
    pending,            \* per server worker: an add submission between its query and its insert
    dob,                \* date calculator: birthday.dob
    today,              \* date calculator: today
    details,            \* date calculator: what calculate_birthday_details did
    birthdays_with_details, \* board: the entries before sorting
    sorted_birthdays,   \* board: the entries sorted
    upcoming_birthdays, \* board: the entries tied for the minimum
    facts_call,         \* fun facts: model configured?, tob, what generate_content does
    fun_facts,          \* fun facts: what generate_gemini_fun_facts returned
    phase               \* "input" before a helper ran, "done" after, "web" in the request specs

vars == <<users, birthdays, current_user, request, response, pending, dob, today, details,
          birthdays_with_details, sorted_birthdays, upcoming_birthdays, facts_call,
          fun_facts, phase>>

webVars == <<users, birthdays, current_user, request, response, pending>>
dateVars == <<dob, today, details>>
boardVars == <<birthdays_with_details, sorted_birthdays, upcoming_birthdays>>
factsVars == <<facts_call, fun_facts>>

\* Python's None, and a present value, as sequences of length 0 and 1.
None == <<>>
Some(x) == <<x>>

(***************************************************************************)
(* Bounds                                                                   *)
(***************************************************************************)
\* Birthday ids handed out by the store stay within 1..MaxId.
MaxId == 2

(***************************************************************************)
(* Calendar dates (datetime.date)                                           *)
(***************************************************************************)
IsLeap(y) == (y % 4 = 0) /\ ((y % 100 # 0) \/ (y % 400 = 0))

DaysInMonth(y, m) ==
    IF m = 2 THEN (IF IsLeap(y) THEN 29 ELSE 28)
    ELSE IF m \in {4, 6, 9, 11} THEN 30 ELSE 31

Date(y, m, d) == [year |-> y, month |-> m, day |-> d]

IsValidDate(y, m, d) ==
    /\ y \in 1..9999
    /\ m \in 1..12
    /\ d \in 1..DaysInMonth(y, m)

(***************************************************************************)
(* Users and sessions                                                       *)
(***************************************************************************)
ADMIN_EMAIL == "jithesh882006@gmail.com"
Emails == {ADMIN_EMAIL, "asha@example.com", "ben@example.com"}
\* passwords typed at registration, and at login
RegisterPasswords == {"pw1"}
Passwords == {"pw1", "pw2"}
\* server workers (threads) that may each be handling a request
Workers == {"w1", "w2"}

\* werkzeug's salted hash, reduced to what check_password_hash decides.
generate_password_hash(password) == <<"pbkdf2:sha256", password>>
check_password_hash(pwhash, password) == pwhash = generate_password_hash(password)

User(id, email, password) == [id |-> id, email |-> email, password |-> password]

\* User.query.filter_by(email=...).first(): the set of matches, empty or a singleton
UsersByEmail(email) == {u \in users : u.email = email}

\* load_user: the row of the session's user id
load_user(user_id) == CHOOSE u \in users : u.id = user_id

is_authenticated == current_user # None
CurrentUser == load_user(current_user[1])

NextUserId == Cardinality(users) + 1

(***************************************************************************)
(* Form input of an add or edit submission                                  *)
(***************************************************************************)
\* The date field: wellformed says the text has the shape %Y-%m-%d, and then
\* y, m, d are the numbers it spells.
DateText(wellformed, y, m, d) == [wellformed |-> wellformed, y |-> y, m |-> m, d |-> d]

Form(name, dobText, tob, pob, notes) ==
    [name |-> name, dob |-> dobText, tob |-> tob, pob |-> pob, notes |-> notes]

NoForm == Form("", DateText(FALSE, 0, 0, 0), "", "", "")

Forms == {
    Form("Asha", DateText(TRUE, 2000, 3, 1), "10:30", "Paris", "cake"),
    Form("Ben", DateText(TRUE, 2024, 2, 29), "", "", ""),
    Form("Cy", DateText(TRUE, 2023, 2, 30), "09:00", "Paris", "n/a")
}

\* datetime.strptime(text, '%Y-%m-%d'): raises ValueError unless the text has
\* the format and names a day of the calendar
strptime_raises(text) == ~(text.wellformed /\ IsValidDate(text.y, text.m, text.d))
strptime_date(text) == Date(text.y, text.m, text.d)

(***************************************************************************)
(* Geocoding                                                                *)
(***************************************************************************)
\* What the lookup service does with one request: a first match, an empty
\* list, or a transport failure (requests.RequestException).
Lookups == {"match", "empty", "fail"}

\* The first match of the service's JSON answer; lat and lon are decimal
\* texts, written here as the number of 1/10000 degree they spell.
GeoData(place_name) ==
    IF place_name = "Paris" THEN [lat |-> 488566, lon |-> 23522]
    ELSE [lat |-> 0, lon |-> 0]

Returned(lat, lon) == [unpackable |-> TRUE, lat |-> lat, lon |-> lon]
\* a bare None: a function that ends without a return statement
ReturnedNone == [unpackable |-> FALSE, lat |-> None, lon |-> None]

get_coords(place_name, lookup) ==
    IF place_name = "" THEN Returned(None, None)
    ELSE IF lookup = "fail" THEN Returned(None, None)
    ELSE IF lookup = "match"
         THEN Returned(Some(GeoData(place_name).lat), Some(GeoData(place_name).lon))
    ELSE ReturnedNone

\* the lookup as the request saw it: "unused" when get_coords made no call
LookupSeen(place_name, lookup) == IF place_name = "" THEN "unused" ELSE lookup

(***************************************************************************)
(* The record store                                                         *)
(***************************************************************************)
Birthday(id, name, d, tob, pob, notes, latitude, longitude, user_id) ==
    [id |-> id, name |-> name, dob |-> d, tob |-> tob, pob |-> pob, notes |-> notes,
     latitude |-> latitude, longitude |-> longitude, user_id |-> user_id]

BirthdayIds == {b.id : b \in birthdays}

\* Birthday.query.get_or_404(id) when the row exists
BirthdayById(id) == CHOOSE b \in birthdays : b.id = id

\* Birthday.query.filter_by(user_id=...)
BirthdaysOf(user_id) == {b \in birthdays : b.user_id = user_id}

SetMax(S) == CHOOSE x \in S : \A y \in S : y <= x

\* the integer primary key of a new row
NextBirthdayId == IF birthdays = {} THEN 1 ELSE SetMax(BirthdayIds) + 1

(***************************************************************************)
(* Requests and responses                                                   *)
(***************************************************************************)
\* form is the form the handler read, NoForm when it read none
Request(route, method, id, form, lookup) ==
    [route |-> route, method |-> method, id |-> id, form |-> form, lookup |-> lookup]

Redirect(view, flash) == [status |-> 302, view |-> view, flash |-> flash]
Render(template) == [status |-> 200, view |-> template, flash |-> ""]
RenderFlash(template, flash) == [status |-> 200, view |-> template, flash |-> flash]
NotFound == [status |-> 404, view |-> "", flash |-> ""]
\* an exception no handler catches
ServerError(exception) == [status |-> 500, view |-> exception, flash |-> ""]

\* @login_required on an anonymous session
Unauthorized == Redirect("welcome", "Please log in to access this page.")

\* the flashed messages, those that name the record without its name
FlashOnePerAccount == "You can only add one birthday to the board per account."
FlashEditOwn == "You can only edit birthdays that you have added."
FlashDeleteOwn == "You can only delete birthdays that you have added."
FlashAdded == "Birthday added!"
FlashUpdated == "Updated birthday!"
FlashDeleted == "Deleted birthday"
FlashLoginFailed == "Login failed. Check your email and password."
FlashRegistered == "This email is already registered."

\* the slip of comparing the record's own id with the user's
MayNotMutate_record_id(b, u) == b.id # u.id /\ u.email # ADMIN_EMAIL

\* birthday.creator != current_user and current_user.email != ADMIN_EMAIL
MayNotMutate(b, u) == b.user_id # u.id /\ u.email # ADMIN_EMAIL

\* the slip of querying filter_by(id=current_user.id)
OnePerAccountHit_by_id(u) == u.email # ADMIN_EMAIL /\ {b \in birthdays : b.id = u.id} # {}

\* current_user.email != ADMIN_EMAIL and an existing birthday of the user
OnePerAccountHit(u) == u.email # ADMIN_EMAIL /\ BirthdaysOf(u.id) # {}

(***************************************************************************)
(* Authentication routes                                                    *)
(***************************************************************************)
NoPending == [w \in Workers |-> None]
helpersIdle == UNCHANGED <<dateVars, boardVars, factsVars, phase>>

\* POST /register
Register(email, password) ==
    /\ request' = Request("register", "POST", 0, NoForm, "unused")
    /\ IF is_authenticated
       THEN /\ response' = Redirect("index", "")
            /\ UNCHANGED <<users, current_user>>
       ELSE IF UsersByEmail(email) # {}
       THEN /\ response' = Redirect("register", FlashRegistered)
            /\ UNCHANGED <<users, current_user>>
       ELSE /\ users' = users \cup {User(NextUserId, email, generate_password_hash(password))}
            /\ current_user' = Some(NextUserId)
            /\ response' = Redirect("index", "")
    /\ UNCHANGED <<birthdays, pending>>
    /\ helpersIdle

\* POST /login
Login(email, password) ==
    /\ request' = Request("login", "POST", 0, NoForm, "unused")
    /\ IF is_authenticated
       THEN /\ response' = Redirect("index", "")
            /\ UNCHANGED current_user
       ELSE IF \E u \in UsersByEmail(email) : check_password_hash(u.password, password)
       THEN /\ current_user' = Some((CHOOSE u \in UsersByEmail(email) : TRUE).id)
            /\ response' = Redirect("index", "")
       ELSE /\ response' = RenderFlash("login.html", FlashLoginFailed)
            /\ UNCHANGED current_user
    /\ UNCHANGED <<users, birthdays, pending>>
    /\ helpersIdle

\* GET /logout
Logout ==
    /\ request' = Request("logout", "GET", 0, NoForm, "unused")
    /\ IF ~is_authenticated
       THEN /\ response' = Unauthorized
            /\ UNCHANGED current_user
       ELSE /\ current_user' = None
            /\ response' = Redirect("welcome", "")
    /\ UNCHANGED <<users, birthdays, pending>>
    /\ helpersIdle

(***************************************************************************)
(* Record routes                                                            *)
(***************************************************************************)
\* add_birthday from the call of get_coords on: the unpacking of its result,
\* the parse of the date, the insert and the commit
AddInsert(u, form, lookup) ==
    LET coords == get_coords(form.pob, lookup) IN
    IF ~coords.unpackable
    THEN /\ response' = ServerError("TypeError")
         /\ UNCHANGED birthdays
    ELSE IF strptime_raises(form.dob)
    THEN /\ response' = ServerError("ValueError")
         /\ UNCHANGED birthdays
    ELSE /\ NextBirthdayId <= MaxId
         /\ birthdays' = birthdays \cup
                {Birthday(NextBirthdayId, form.name, strptime_date(form.dob), form.tob,
                          form.pob, form.notes, coords.lat, coords.lon, u.id)}
         /\ response' = Redirect("index", FlashAdded)

\* GET or POST /add, handled as one step
AddBirthday(method, form, lookup) ==
    /\ IF ~is_authenticated
       THEN /\ request' = Request("add", method, 0, NoForm, "unused")
            /\ response' = Unauthorized
            /\ UNCHANGED birthdays
       ELSE IF method = "GET"
       THEN /\ request' = Request("add", method, 0, NoForm, "unused")
            /\ response' = Render("add_birthday.html")
            /\ UNCHANGED birthdays
       ELSE IF OnePerAccountHit(CurrentUser)
       THEN /\ request' = Request("add", method, 0, NoForm, "unused")
            /\ response' = Redirect("index", FlashOnePerAccount)
            /\ UNCHANGED birthdays
       ELSE /\ request' = Request("add", method, 0, form, LookupSeen(form.pob, lookup))
            /\ AddInsert(CurrentUser, form, lookup)
    /\ UNCHANGED <<users, current_user, pending>>
    /\ helpersIdle

\* the assignments of a POST /edit/<id> up to the commit; an exception on the
\* way leaves the session uncommitted, and the request's end discards it
EditCommit(b, form, lookup) ==
    LET coords == get_coords(form.pob, lookup) IN
    IF strptime_raises(form.dob)
    THEN /\ response' = ServerError("ValueError")
         /\ UNCHANGED birthdays
    ELSE IF ~coords.unpackable
    THEN /\ response' = ServerError("TypeError")
         /\ UNCHANGED birthdays
    ELSE /\ birthdays' = (birthdays \ {b}) \cup
                {Birthday(b.id, form.name, strptime_date(form.dob), form.tob, form.pob,
                          form.notes, coords.lat, coords.lon, b.user_id)}
         /\ response' = Redirect("index", FlashUpdated)

\* GET or POST /edit/<id>
Edit(id, method, form, lookup) ==
    /\ IF ~is_authenticated
       THEN /\ request' = Request("edit", method, id, NoForm, "unused")
            /\ response' = Unauthorized
            /\ UNCHANGED birthdays
       ELSE IF id \notin BirthdayIds
       THEN /\ request' = Request("edit", method, id, NoForm, "unused")
            /\ response' = NotFound
            /\ UNCHANGED birthdays
       ELSE IF MayNotMutate(BirthdayById(id), CurrentUser)
       THEN /\ request' = Request("edit", method, id, NoForm, "unused")
            /\ response' = Redirect("index", FlashEditOwn)
            /\ UNCHANGED birthdays
       ELSE IF method = "GET"
       THEN /\ request' = Request("edit", method, id, NoForm, "unused")
            /\ response' = Render("edit.html")
            /\ UNCHANGED birthdays
       ELSE /\ request' = Request("edit", method, id, form,
                                  IF strptime_raises(form.dob) THEN "unused"
                                  ELSE LookupSeen(form.pob, lookup))
            /\ EditCommit(BirthdayById(id), form, lookup)
    /\ UNCHANGED <<users, current_user, pending>>
    /\ helpersIdle

\* GET /delete/<id>
Delete(id) ==
    /\ request' = Request("delete", "GET", id, NoForm, "unused")
    /\ IF ~is_authenticated
       THEN /\ response' = Unauthorized
            /\ UNCHANGED birthdays
       ELSE IF id \notin BirthdayIds
       THEN /\ response' = NotFound
            /\ UNCHANGED birthdays
       ELSE IF MayNotMutate(BirthdayById(id), CurrentUser)
       THEN /\ response' = Redirect("index", FlashDeleteOwn)
            /\ UNCHANGED birthdays
       ELSE /\ birthdays' = birthdays \ {BirthdayById(id)}
            /\ response' = Redirect("index", FlashDeleted)
    /\ UNCHANGED <<users, current_user, pending>>
    /\ helpersIdle

(***************************************************************************)
(* The application, one request at a time                                   *)
(***************************************************************************)
\* What a request to /add or /edit carries, and what the lookup service does with
\* the call the request makes: a GET carries no form, and a form without a place
\* makes no call.
Submissions ==
    {[method |-> "GET", form |-> NoForm, lookup |-> "unused"]}
    \cup {s \in [method : {"POST"}, form : Forms, lookup : Lookups \cup {"unused"}] :
              s.lookup = "unused" <=> s.form.pob = ""}

HelpersInit ==
    /\ dob = Date(2000, 1, 1)
    /\ today = Date(2000, 1, 1)
    /\ details = [raised |-> FALSE, days_left |-> 0, age_turning |-> 0]
    /\ birthdays_with_details = <<>>
    /\ sorted_birthdays = <<>>
    /\ upcoming_birthdays = <<>>
    /\ facts_call = [model |-> FALSE, tob |-> "", raises |-> FALSE, text |-> <<>>]
    /\ fun_facts = <<>>

\* the state after construction: both tables empty, nobody logged in
Init ==
    /\ users = {}
    /\ birthdays = {}
    /\ current_user = None
    /\ request = Request("", "", 0, NoForm, "unused")
    /\ response = Render("")
    /\ pending = NoPending
    /\ phase = "web"
    /\ HelpersInit

Next ==
    \/ \E email \in Emails, password \in RegisterPasswords : Register(email, password)
    \/ \E email \in Emails, password \in Passwords : Login(email, password)
    \/ Logout
    \/ \E s \in Submissions : AddBirthday(s.method, s.form, s.lookup)
    \/ \E id \in 1..MaxId, s \in Submissions : Edit(id, s.method, s.form, s.lookup)
    \/ \E id \in 1..MaxId : Delete(id)

Spec == Init /\ [][Next]_vars

(***************************************************************************)
(* The application with two server workers: an add submission's query for   *)
(* an existing birthday and its insert are separate steps, and another      *)
(* worker's steps may fall between them                                     *)
(***************************************************************************)
\* add_birthday up to the call of get_coords
AddQuery(w, method, form) ==
    /\ pending[w] = None
    /\ IF ~is_authenticated
       THEN /\ request' = Request("add", method, 0, NoForm, "unused")
            /\ response' = Unauthorized
            /\ UNCHANGED pending
       ELSE IF method = "GET"
       THEN /\ request' = Request("add", method, 0, NoForm, "unused")
            /\ response' = Render("add_birthday.html")
            /\ UNCHANGED pending
       ELSE IF OnePerAccountHit(CurrentUser)
       THEN /\ request' = Request("add", method, 0, NoForm, "unused")
            /\ response' = Redirect("index", FlashOnePerAccount)
            /\ UNCHANGED pending
       ELSE /\ pending' = [pending EXCEPT ![w] = Some([user_id |-> CurrentUser.id, form |-> form])]
            /\ UNCHANGED <<request, response>>
    /\ UNCHANGED <<users, birthdays, current_user>>
    /\ helpersIdle

\* add_birthday from the call of get_coords to its return
AddFinish(w, lookup) ==
    /\ pending[w] # None
    /\ LET form == pending[w][1].form IN
        /\ request' = Request("add", "POST", 0, form, LookupSeen(form.pob, lookup))
        /\ AddInsert(load_user(pending[w][1].user_id), form, lookup)
    /\ pending' = [pending EXCEPT ![w] = None]
    /\ UNCHANGED <<users, current_user>>
    /\ helpersIdle

\* the accounts that take part: the administrator and one other
ConcEmails == {ADMIN_EMAIL, "asha@example.com"}

NextConc ==
    \/ \E email \in ConcEmails, password \in RegisterPasswords : Register(email, password)
    \/ \E email \in ConcEmails, password \in Passwords : Login(email, password)
    \/ Logout
    \/ \E w \in Workers, s \in Submissions : AddQuery(w, s.method, s.form)
    \/ \E w \in Workers, lookup \in Lookups : AddFinish(w, lookup)
    \/ \E id \in 1..MaxId : Delete(id)

SpecConc == Init /\ [][NextConc]_vars

(***************************************************************************)
(* Date calculator                                                          *)
(***************************************************************************)
\* date.replace(year=y) raises ValueError when the day does not exist in year y
replace_raises(d, y) == ~IsValidDate(y, d.month, d.day)
replace(d, y) == Date(y, d.month, d.day)

\* date.__lt__
DateLess(a, b) ==
    \/ a.year < b.year
    \/ a.year = b.year /\ a.month < b.month
    \/ a.year = b.year /\ a.month = b.month /\ a.day < b.day

RECURSIVE DaysBeforeMonth(_, _)
DaysBeforeMonth(y, m) == IF m = 1 THEN 0 ELSE DaysBeforeMonth(y, m - 1) + DaysInMonth(y, m - 1)

DaysBeforeYear(y) == (y - 1) * 365 + (y - 1) \div 4 - (y - 1) \div 100 + (y - 1) \div 400

\* date.toordinal(); (a - b).days is toordinal(a) - toordinal(b)
toordinal(d) == DaysBeforeYear(d.year) + DaysBeforeMonth(d.year, d.month) + d.day

Raised == [raised |-> TRUE, days_left |-> 0, age_turning |-> 0]
Details(days_left, age_turning) ==
    [raised |-> FALSE, days_left |-> days_left, age_turning |-> age_turning]

\* the slip of taking today's birthday for one already past
calculate_birthday_details_passed_today(birthday_dob, day) ==
    IF replace_raises(birthday_dob, day.year) THEN Raised
    ELSE LET birthday_this_year == replace(birthday_dob, day.year) IN
         IF ~DateLess(day, birthday_this_year) /\ replace_raises(birthday_this_year, day.year + 1)
         THEN Raised
         ELSE LET next_birthday_date ==
                      IF ~DateLess(day, birthday_this_year)
                      THEN replace(birthday_this_year, day.year + 1)
                      ELSE birthday_this_year
              IN Details(toordinal(next_birthday_date) - toordinal(day),
                         next_birthday_date.year - birthday_dob.year)

\* (days_left, age_turning), or the ValueError of a replace; the local age is
\* computed and never used
calculate_birthday_details(birthday_dob, day) ==
    IF replace_raises(birthday_dob, day.year) THEN Raised
    ELSE LET birthday_this_year == replace(birthday_dob, day.year) IN
         IF DateLess(birthday_this_year, day) /\ replace_raises(birthday_this_year, day.year + 1)
         THEN Raised
         ELSE LET next_birthday_date ==
                      IF DateLess(birthday_this_year, day)
                      THEN replace(birthday_this_year, day.year + 1)
                      ELSE birthday_this_year
              IN Details(toordinal(next_birthday_date) - toordinal(day),
                         next_birthday_date.year - birthday_dob.year)

\* The years beyond 2023 that dates are drawn from.
YearSpan == 1
Years == {2000} \cup (2023..(2023 + YearSpan))
DaysOfMonth == {1, 2, 28, 29, 30, 31}
Dates == {dt \in [year : Years, month : 1..12, day : DaysOfMonth] :
              IsValidDate(dt.year, dt.month, dt.day)}

WebIdle ==
    /\ users = {}
    /\ birthdays = {}
    /\ current_user = None
    /\ request = Request("", "", 0, NoForm, "unused")
    /\ response = Render("")
    /\ pending = NoPending

InitDate ==
    /\ WebIdle
    /\ dob \in Dates
    /\ today \in Dates
    /\ details = Details(0, 0)
    /\ birthdays_with_details = <<>>
    /\ sorted_birthdays = <<>>
    /\ upcoming_birthdays = <<>>
    /\ facts_call = [model |-> FALSE, tob |-> "", raises |-> FALSE, text |-> <<>>]
    /\ fun_facts = <<>>
    /\ phase = "input"

Calculate ==
    /\ phase = "input"
    /\ details' = calculate_birthday_details(dob, today)
    /\ phase' = "done"
    /\ UNCHANGED <<webVars, dob, today, boardVars, factsVars>>

NextDate == Calculate

SpecDate == InitDate /\ [][NextDate]_vars

(***************************************************************************)
(* The board's ranking (index)                                              *)
(***************************************************************************)
Entry(birthday, days_left) == [birthday |-> birthday, days_left |-> days_left]

\* one step of an insertion that puts an entry before its equals
InsertBeforeEquals(seq, e) ==
    LET k == Cardinality({i \in 1..Len(seq) : seq[i].days_left < e.days_left})
    IN SubSeq(seq, 1, k) \o <<e>> \o SubSeq(seq, k + 1, Len(seq))

\* one step of the binary insertion sort sorted() runs on a short list: the
\* entry goes behind every entry whose key is not greater
InsertSorted(seq, e) ==
    LET k == Cardinality({i \in 1..Len(seq) : seq[i].days_left <= e.days_left})
    IN SubSeq(seq, 1, k) \o <<e>> \o SubSeq(seq, k + 1, Len(seq))

RECURSIVE SortPrefix(_, _)
SortPrefix(seq, n) ==
    IF n = 0 THEN <<>> ELSE InsertSorted(SortPrefix(seq, n - 1), seq[n])

\* sorted(birthdays_with_details, key=lambda x: x['days_left'])
sorted(seq) == SortPrefix(seq, Len(seq))

\* the earlier version: the single first entry
upcoming_first_only(sorted_seq) ==
    IF sorted_seq # <<>> THEN <<sorted_seq[1]>> ELSE <<>>

\* the entries whose days_left is that of the first sorted entry
upcoming(sorted_seq) ==
    IF sorted_seq # <<>>
    THEN LET min_days_left == sorted_seq[1].days_left
         IN SelectSeq(sorted_seq, LAMBDA b : b.days_left = min_days_left)
    ELSE <<>>

\* The number of records on the board is at most MaxBoard.
MaxBoard == 4
DaysLeftValues == {0, 3, 5}

\* the entries in the order of the query, each with its own record; sorted()
\* takes any list, so every order of days_left values is drawn
Boards ==
    UNION {{[i \in 1..n |-> Entry(i, ds[i])] : ds \in [1..n -> DaysLeftValues]} : n \in 0..MaxBoard}

InitBoard ==
    /\ WebIdle
    /\ dob = Date(2000, 1, 1)
    /\ today = Date(2000, 1, 1)
    /\ details = Details(0, 0)
    /\ birthdays_with_details \in Boards
    /\ sorted_birthdays = <<>>
    /\ upcoming_birthdays = <<>>
    /\ facts_call = [model |-> FALSE, tob |-> "", raises |-> FALSE, text |-> <<>>]
    /\ fun_facts = <<>>
    /\ phase = "input"

Index ==
    /\ phase = "input"
    /\ sorted_birthdays' = sorted(birthdays_with_details)
    /\ upcoming_birthdays' = upcoming(sorted(birthdays_with_details))
    /\ phase' = "done"
    /\ UNCHANGED <<webVars, dateVars, birthdays_with_details, factsVars>>

NextBoard == Index

SpecBoard == InitBoard /\ [][NextBoard]_vars

(***************************************************************************)
(* Fun facts (generate_gemini_fun_facts)                                    *)
(***************************************************************************)
\* A text is a sequence of characters: a letter, a blank, a pipe.
Chars == {"a", " ", "|"}

\* the two fixed messages, each written as a text of one symbol
ProvideTime == <<"Provide a time of birth to generate fun facts!">>
CouldNot == <<"Could not generate fun facts at this time.">>

RECURSIVE lstrip(_)
lstrip(t) == IF t # <<>> /\ Head(t) = " " THEN lstrip(Tail(t)) ELSE t

RECURSIVE rstrip(_)
rstrip(t) == IF t # <<>> /\ t[Len(t)] = " " THEN rstrip(SubSeq(t, 1, Len(t) - 1)) ELSE t

\* str.strip()
strip(t) == rstrip(lstrip(t))

\* str.split('||') from position i on, cur being the segment begun
RECURSIVE SplitFrom(_, _, _)
SplitFrom(t, i, cur) ==
    IF i > Len(t) THEN <<cur>>
    ELSE IF t[i] = "|" /\ i < Len(t) /\ t[i + 1] = "|"
         THEN <<cur>> \o SplitFrom(t, i + 2, <<>>)
         ELSE SplitFrom(t, i + 1, Append(cur, t[i]))

split(t) == SplitFrom(t, 1, <<>>)

RECURSIVE StripAndKeep(_)
\* [fact.strip() for fact in segments if fact.strip()]
StripAndKeep(segments) ==
    IF segments = <<>> THEN <<>>
    ELSE IF strip(Head(segments)) # <<>>
         THEN <<strip(Head(segments))>> \o StripAndKeep(Tail(segments))
         ELSE StripAndKeep(Tail(segments))

\* call.model: the client was configured; call.raises: generate_content, or the
\* read of response.text, raises; call.text: response.text otherwise
generate_gemini_fun_facts(call) ==
    IF ~call.model \/ call.tob = "" THEN <<ProvideTime>>
    ELSE IF call.raises THEN <<CouldNot>>
    ELSE IF call.text # <<>> THEN StripAndKeep(split(strip(call.text)))
    ELSE <<CouldNot>>

\* The response text has at most MaxText characters.
MaxText == 7
Texts == UNION {[1..n -> Chars] : n \in 0..MaxText}

FactsCalls ==
    {[model |-> m, tob |-> t, raises |-> FALSE, text |-> x] :
        m \in BOOLEAN, t \in {"", "10:30"}, x \in Texts}
    \cup {[model |-> m, tob |-> t, raises |-> TRUE, text |-> <<>>] :
        m \in BOOLEAN, t \in {"", "10:30"}}

InitFacts ==
    /\ WebIdle
    /\ dob = Date(2000, 1, 1)
    /\ today = Date(2000, 1, 1)
    /\ details = Details(0, 0)
    /\ birthdays_with_details = <<>>
    /\ sorted_birthdays = <<>>
    /\ upcoming_birthdays = <<>>
    /\ facts_call \in FactsCalls
    /\ fun_facts = <<>>
    /\ phase = "input"

FunFacts ==
    /\ phase = "input"
    /\ fun_facts' = generate_gemini_fun_facts(facts_call)
    /\ phase' = "done"
    /\ UNCHANGED <<webVars, dateVars, boardVars, facts_call>>

NextFacts == FunFacts

SpecFacts == InitFacts /\ [][NextFacts]_vars

(***************************************************************************)
(* Properties                                                               *)
(***************************************************************************)
IsAdmin(u) == u.email = ADMIN_EMAIL

\* C1: an edit submission or a delete request by a logged-in user who is
\* neither the record's creator nor the administrator is answered with the
\* warning and a redirect to the board, and leaves the record, and the whole
\* store, as it was.
C1_UnauthorizedMutationRejected ==
    [][\A b \in birthdays :
          (/\ is_authenticated
           /\ request'.id = b.id
           /\ \/ request'.route = "edit" /\ request'.method = "POST"
              \/ request'.route = "delete"
           /\ b.user_id # CurrentUser.id
           /\ ~IsAdmin(CurrentUser))
          => /\ response' = Redirect("index", IF request'.route = "edit" THEN FlashEditOwn
                                              ELSE FlashDeleteOwn)
             /\ b \in birthdays'
             /\ birthdays' = birthdays]_vars

\* C1 witness: an edit submission on another user's record was just rejected.
C1_Witness ==
    /\ request.route = "edit"
    /\ request.method = "POST"
    /\ response = Redirect("index", FlashEditOwn)
    /\ is_authenticated
    /\ ~IsAdmin(CurrentUser)
    /\ \E b \in birthdays : b.id = request.id /\ b.user_id # CurrentUser.id

OnePerAccount ==
    \A u \in users : ~IsAdmin(u) => Cardinality(BirthdaysOf(u.id)) <= 1

\* C2: with requests handled one at a time, after every step each user other
\* than the administrator owns at most one birthday, and an add submission by
\* such a user who owns one creates nothing and redirects to the board; the
\* administrator is never refused on that ground.
C2_OnePerAccountSequential ==
    [][/\ OnePerAccount'
       /\ (/\ request'.route = "add"
           /\ request'.method = "POST"
           /\ is_authenticated
           /\ ~IsAdmin(CurrentUser)
           /\ BirthdaysOf(CurrentUser.id) # {})
          => /\ birthdays' = birthdays
             /\ response' = Redirect("index", FlashOnePerAccount)
       /\ (/\ request'.route = "add"
           /\ is_authenticated
           /\ IsAdmin(CurrentUser))
          => response' # Redirect("index", FlashOnePerAccount)]_vars

\* C2 witness: a non-administrator who owns one birthday was just refused a
\* second, while the administrator owns a birthday too.
C2_Witness ==
    /\ request.route = "add"
    /\ request.method = "POST"
    /\ response = Redirect("index", FlashOnePerAccount)
    /\ is_authenticated
    /\ ~IsAdmin(CurrentUser)
    /\ Cardinality(BirthdaysOf(CurrentUser.id)) = 1
    /\ \E u \in users : IsAdmin(u) /\ BirthdaysOf(u.id) # {}

\* the responses a submission gets before its date is looked at
BeforeDateParsed(r) ==
    \/ r = Unauthorized
    \/ r = NotFound
    \/ r = Redirect("index", FlashOnePerAccount)
    \/ r = Redirect("index", FlashEditOwn)

\* C5: an add or edit submission whose date is not a valid ISO calendar date
\* ends with the form shown again and a warning, not with an error, and leaves
\* the store as it was.
C5_MalformedDateWarned ==
    [][(/\ request'.route \in {"add", "edit"}
        /\ request'.method = "POST"
        /\ strptime_raises(request'.form.dob)
        /\ ~BeforeDateParsed(response'))
       => /\ response'.status = 200
          /\ response'.flash # ""
          /\ birthdays' = birthdays]_vars

\* C6: get_coords answers with a pair in every case, so an add or edit
\* submission with a valid date whose place has no match is completed, its
\* record stored without coordinates.
C6_NoMatchStillStored ==
    (/\ request.route \in {"add", "edit"}
     /\ request.lookup = "empty"
     /\ ~strptime_raises(request.form.dob))
    => /\ get_coords(request.form.pob, request.lookup) = Returned(None, None)
       /\ response.status = 302
       /\ \E b \in birthdays :
             /\ b.name = request.form.name
             /\ b.pob = request.form.pob
             /\ b.latitude = None
             /\ b.longitude = None

\* C10: also with two add submissions in flight at once, no user other than
\* the administrator ever owns two birthdays.
C10_OnePerAccountConcurrent ==
    \A u \in users : u.email # ADMIN_EMAIL => Cardinality({b \in birthdays : b.user_id = u.id}) < 2

\* C3: for every birth date and reference date the calculator returns, and
\* its days_left lies in 0..365.
C3_DaysLeftInRange ==
    phase = "done" =>
        /\ ~details.raised
        /\ 0 <= details.days_left
        /\ details.days_left < 366

\* C4: when the reference date falls on the birthday's month and day, the
\* calculator returns days_left = 0 and age_turning = the difference of the
\* years.
C4_OnTheBirthday ==
    (phase = "done" /\ today.month = dob.month /\ today.day = dob.day) =>
        /\ ~details.raised
        /\ details.days_left = 0
        /\ details.age_turning = today.year - dob.year

\* C4 witness: born 2000-03-01, asked on 2024-03-01: 0 days, turning 24.
C4_Witness ==
    /\ phase = "done"
    /\ dob = Date(2000, 3, 1)
    /\ today = Date(2024, 3, 1)
    /\ details = Details(0, 24)

Range(seq) == {seq[i] : i \in 1..Len(seq)}
MinDaysLeft(seq) ==
    CHOOSE d \in {e.days_left : e \in Range(seq)} : \A e \in Range(seq) : d <= e.days_left

\* C7: upcoming_birthdays holds exactly the entries of the input whose
\* days_left is the least one present, each once, and is empty exactly when
\* the input is empty.
C7_UpcomingAreAllMinima ==
    phase = "done" =>
        /\ (upcoming_birthdays = <<>>) <=> (birthdays_with_details = <<>>)
        /\ Range(upcoming_birthdays) =
              {e \in Range(birthdays_with_details) :
                   e.days_left = MinDaysLeft(birthdays_with_details)}
        /\ Len(upcoming_birthdays) = Cardinality(Range(upcoming_birthdays))

\* C7 witness: days-left values 5, 0, 0, 3: both entries with 0 are selected.
C7_Witness ==
    /\ phase = "done"
    /\ birthdays_with_details = <<Entry(1, 5), Entry(2, 0), Entry(3, 0), Entry(4, 3)>>
    /\ upcoming_birthdays = <<Entry(2, 0), Entry(3, 0)>>

\* the place of an entry in a sequence without repetitions
IndexIn(seq, e) == CHOOSE i \in 1..Len(seq) : seq[i] = e

\* C8: sorted_birthdays is a permutation of the input, ascending by days_left,
\* with entries of equal days_left in the order of the input.
C8_SortedStable ==
    phase = "done" =>
        /\ Len(sorted_birthdays) = Len(birthdays_with_details)
        /\ Range(sorted_birthdays) = Range(birthdays_with_details)
        /\ \A i, j \in 1..Len(sorted_birthdays) :
              i < j =>
                /\ sorted_birthdays[i].days_left <= sorted_birthdays[j].days_left
                /\ sorted_birthdays[i].days_left = sorted_birthdays[j].days_left
                   => IndexIn(birthdays_with_details, sorted_birthdays[i])
                        < IndexIn(birthdays_with_details, sorted_birthdays[j])

\* C8 witness: days-left values 5, 0, 0, 3 come out as 0, 0, 3, 5, the two
\* entries with 0 in their input order.
C8_Witness ==
    /\ phase = "done"
    /\ birthdays_with_details = <<Entry(1, 5), Entry(2, 0), Entry(3, 0), Entry(4, 3)>>
    /\ sorted_birthdays = <<Entry(2, 0), Entry(3, 0), Entry(4, 3), Entry(1, 5)>>

Placeholders == {<<ProvideTime>>, <<CouldNot>>}

\* C9: generate_gemini_fun_facts returns 2 or 3 non-empty texts or exactly one
\* placeholder, the placeholder whenever the time of birth is absent or the
\* call fails, and never an empty sequence.
C9_TwoOrThreeFactsOrPlaceholder ==
    phase = "done" =>
        /\ \/ fun_facts \in Placeholders
           \/ /\ Len(fun_facts) \in {2, 3}
              /\ \A i \in 1..Len(fun_facts) :
                    fun_facts[i] # <<>> /\ <<fun_facts[i]>> \notin Placeholders
        /\ (facts_call.tob = "" \/ facts_call.raises) => fun_facts \in Placeholders

====
